---- MODULE Spec2Model ----
(***************************************************************************)
(* RLN (rate-limiting nullifier): the foreign boundary of src/ffi.rs over  *)
(* the protocol engine RLN<Bn256>, and the constraint system of            *)
(* src/circuit/rln.rs.                                                     *)
(*                                                                         *)
(* The engine (public.rs), the Merkle tree (merkle.rs), the Poseidon hash  *)
(* (poseidon.rs) and hash_to_field are modelled from the specification,    *)
(* and from what the tests of ffi.rs and rln.rs observe of them.  The      *)
(* proving backend (bellman groth16) is                                    *)
(* idealised: a proof verifies against public inputs exactly when it was   *)
(* created for those public inputs from an assignment that satisfies the   *)
(* constraint system.                                                      *)
(***************************************************************************)
EXTENDS Integers, Sequences, FiniteSets, TLC

(***************************************************************************)
(* Field elements.  Fr is a prime field; the modulus is scaled down so     *)
(* that products fit 32-bit integers.  x -> x^5 is a permutation of it     *)
(* (gcd(5, P - 1) = 1), as it is of the BN256 scalar field.                *)
(***************************************************************************)
P == 46337

Fr == 0 .. (P - 1)

add_assign(a, b) == (a + b) % P

sub_assign(a, b) == (a + P - b) % P

mul_assign(a, b) == (a * b) % P

RECURSIVE pow(_, _)
pow(a, n) ==
  IF n = 0 THEN 1
  ELSE LET h == pow(a, n \div 2)
           h2 == mul_assign(h, h)
       IN IF n % 2 = 1 THEN mul_assign(h2, a) ELSE h2

\* the multiplicative inverse (a # 0)
inverse(a) == pow(a, P - 2)

(***************************************************************************)
(* Poseidon, reduced to a state of width 2 and two rounds: a full round    *)
(* (round constants, the S-box x^5 on both elements, the linear layer      *)
(* (1 2)), then a partial round (round constant, S-box on the first        *)
(* element), whose first element is the hash.  The reduction keeps the     *)
(* hash injective in each argument, which stands for the collision         *)
(* resistance of the full permutation.                                     *)
(***************************************************************************)
quintic_sbox(x) ==
  LET x2 == mul_assign(x, x)
      x4 == mul_assign(x2, x2)
  IN mul_assign(x4, x)

\* round_constants[r][i]
round_constant(r, i) == (7919 * r + 104729 * i + 3) % P

\* the full round, then the first element of the partial round
poseidon_permute(a, b) ==
  LET s1 == quintic_sbox((a + round_constant(0, 0)) % P)
      s2 == quintic_sbox((b + round_constant(0, 1)) % P)
      t == (s1 + 2 * s2) % P
  IN quintic_sbox((t + round_constant(1, 0)) % P)

\* hasher.hash(inputs): the inputs padded with zeros to the width and
\* permuted.  Arity 1 or 2.
hash(inputs) ==
  poseidon_permute(inputs[1], IF Len(inputs) > 1 THEN inputs[2] ELSE 0)

(***************************************************************************)
(* MerkleTree: depth and nodes.  Node <<l, i>> is the i-th node of level   *)
(* l; level 0 is the root, level depth the leaves.  The empty leaf is the  *)
(* zero of the field.                                                      *)
(***************************************************************************)
RECURSIVE pow2(_)
pow2(n) == IF n = 0 THEN 1 ELSE 2 * pow2(n - 1)

\* the number of leaves
capacity(t) == pow2(t.depth)

\* the root of an empty subtree whose root is at level l
RECURSIVE zero(_, _)
zero(depth, l) ==
  IF l = depth THEN 0
  ELSE LET z == zero(depth, l + 1) IN hash(<<z, z>>)

\* MerkleTree::empty(hasher, depth)
empty(depth) ==
  [depth |-> depth,
   nodes |-> [n \in {<<l, i>> \in (0 .. depth) \X (0 .. (pow2(depth) - 1)) :
                       i < pow2(l)} |-> zero(depth, n[1])]]

\* recompute the ancestors of node <<l, i>>, leaf to root
RECURSIVE recalculate_from(_, _, _)
recalculate_from(nodes, l, i) ==
  IF l = 0 THEN nodes
  ELSE LET p == i \div 2
           h == hash(<<nodes[<<l, 2 * p>>], nodes[<<l, 2 * p + 1>>]>>)
       IN recalculate_from([nodes EXCEPT ![<<l - 1, p>>] = h], l - 1, p)

\* MerkleTree::update(index, value), 0 <= index < 2^depth
update(t, index, value) ==
  [t EXCEPT !.nodes =
     recalculate_from([t.nodes EXCEPT ![<<t.depth, index>>] = value],
                      t.depth, index)]

\* MerkleTree::delete(index) = update(index, zero)
delete(t, index) == update(t, index, 0)

\* MerkleTree::root
root(t) == t.nodes[<<0, 0>>]

\* the leaf at index
leaf(t, index) == t.nodes[<<t.depth, index>>]

\* MerkleTree::witness(index): leaf to root, the sibling and the position
\* bit of each level; the bit is true when the node on the path is the
\* left operand of the pair
RECURSIVE witness_from(_, _, _)
witness_from(nodes, l, i) ==
  IF l = 0 THEN <<>>
  ELSE LET sib == IF i % 2 = 0 THEN i + 1 ELSE i - 1
       IN <<<<nodes[<<l, sib>>], sib % 2 = 1>>>>
          \o witness_from(nodes, l - 1, i \div 2)

witness(t, index) == witness_from(t.nodes, t.depth, index)

(***************************************************************************)
(* The circuit of src/circuit/rln.rs.  A constraint system is satisfied    *)
(* when every enforced constraint holds of the assignment; the hasher      *)
(* gadget computes the native Poseidon.                                    *)
(***************************************************************************)

\* num::AllocatedNum::conditionally_reverse(a, b, condition): (b, a) when
\* the condition holds, (a, b) otherwise
\* a reversal that ignores its condition
conditionally_reverse_never(a, b, condition) == <<a, b>>

conditionally_reverse(a, b, condition) ==
  IF condition THEN <<b, a>> ELSE <<a, b>>

\* the ascent with the operands of the hash in the other order
hash_couple_swapped(acc, e) ==
  LET rev == conditionally_reverse(acc, e[1], e[2])
      xr == rev[1]
      xl == rev[2]
  IN hash(<<xr, xl>>)

\* one level of the ascent: (xr, xl) = conditionally_reverse(acc,
\* path_element, position); acc = hash(xl, xr)
hash_couple(acc, e) ==
  LET rev == conditionally_reverse(acc, e[1], e[2])
      xr == rev[1]
      xl == rev[2]
  IN hash(<<xl, xr>>)

RECURSIVE ascend(_, _)
ascend(acc, auth_path) ==
  IF auth_path = <<>> THEN acc
  ELSE ascend(hash_couple(acc, Head(auth_path)), Tail(auth_path))

\* allocate_add_with_coeff(a1, x, a0): a1 * x + a0
allocate_add_with_coeff(a1, x, a0) == add_assign(mul_assign(a1, x), a0)

\* a circuit that takes the preimage itself for the leaf
enforce_membership_raw(inputs) ==
  ascend(inputs.id_key, inputs.auth_path) = inputs.root

\* a circuit that never constrains the accumulator
enforce_membership_absent(inputs) == TRUE

\* "enforce membership": acc * 1 = root
enforce_membership(inputs) ==
  ascend(hash(<<inputs.id_key>>), inputs.auth_path) = inputs.root

\* a lookup constraint that leaves the intercept out
enforce_lookup_linear(inputs, a_1) ==
  inputs.share_y = mul_assign(a_1, inputs.share_x)

\* "enforce lookup": share_y * 1 = eval
enforce_lookup(inputs, a_1) ==
  inputs.share_y = allocate_add_with_coeff(a_1, inputs.share_x, inputs.id_key)

\* "enforce nullifier": nullifier_calculated * 1 = nullifier
enforce_nullifier(inputs, a_1) == hash(<<a_1>>) = inputs.nullifier

\* RLNCircuit::synthesize, as the satisfaction of what it enforces;
\* a_1 = hash(a_0, epoch) is allocated once and used by both later parts
enforce(inputs, a_1) ==
  /\ enforce_membership(inputs)
  /\ enforce_lookup(inputs, a_1)
  /\ enforce_nullifier(inputs, a_1)

synthesize(inputs) == enforce(inputs, hash(<<inputs.id_key, inputs.epoch>>))

\* RLNInputs::public_inputs
public_inputs(inputs) ==
  [root |-> inputs.root, epoch |-> inputs.epoch, share_x |-> inputs.share_x,
   share_y |-> inputs.share_y, nullifier |-> inputs.nullifier]

(***************************************************************************)
(* The proving backend.  create_random_proof builds a proof from any       *)
(* assignment, satisfying or not; verify_proof accepts a proof for the     *)
(* public inputs it was built for when the assignment satisfied the        *)
(* circuit.                                                                *)
(***************************************************************************)
create_random_proof(inputs) ==
  [statement |-> public_inputs(inputs), satisfied |-> synthesize(inputs)]

verify_proof(proof, inputs) ==
  proof.satisfied /\ proof.statement = inputs


(***************************************************************************)
(* The values the callers of the boundary pass.                            *)
(***************************************************************************)
\* the depths an engine is constructed with
Depths == {1, 2}

\* identity secrets
Secrets == {11, 22}

\* epochs
MaxEpoch == 1

Epochs == 1 .. MaxEpoch

\* signals, as byte strings; the last one hashes to the zero of the field
Signals == {<<1>>, <<2>>, <<179, 76>>}

\* an input buffer: the value it deserializes to, or a buffer too short to
\* deserialize
Buffer(v) == <<v>>

Malformed == <<>>

\* hash_to_field: the bytes absorbed one by one, reduced into the field
RECURSIVE absorb(_, _)
absorb(h, bytes) ==
  IF bytes = <<>> THEN h
  ELSE absorb((h * 257 + Head(bytes) + 1) % P, Tail(bytes))

hash_to_field(bytes) == absorb(0, bytes)

(***************************************************************************)
(* The engine RLN<E>: its operations on the tree and the next free index,  *)
(* each returning io::Result.                                              *)
(***************************************************************************)
Ok(v) == [ok |-> TRUE, err |-> "none", out |-> <<v>>]

Err(e) == [ok |-> FALSE, err |-> e, out |-> <<>>]

\* RLN::new_with_raw_params(merkle_depth, raw_circuit_parameters, None)
RLN_new_with_raw_params(merkle_depth, raw_circuit_parameters) ==
  IF raw_circuit_parameters = Malformed THEN Err("ParameterError")
  ELSE Ok([tree |-> empty(merkle_depth), next_index |-> 0])

\* RLN::get_root(writer): the root written to the writer
RLN_get_root(t, writer_ok) ==
  IF writer_ok THEN Ok(root(t)) ELSE Err("WriteError")

\* RLN::update_next_member(input): insert at next_index, advance it
RLN_update_next_member(t, next, input) ==
  IF input = Malformed THEN Err("SerializationError")
  ELSE IF next >= capacity(t) THEN Err("CapacityError")
  ELSE Ok([tree |-> update(t, next, input[1]), next_index |-> next + 1])

\* RLN::delete_member(index): zero the leaf; the index is not reused
RLN_delete_member(t, next, index) ==
  IF index >= next THEN Err("IndexError")
  ELSE Ok([tree |-> delete(t, index), next_index |-> next])

\* RLN::signal_to_field(input)
RLN_signal_to_field(input) ==
  IF input = Malformed THEN Err("SerializationError")
  ELSE Ok(hash_to_field(input[1]))

\* RLN::key_gen: secret from the randomness source, commitment its hash
RLN_key_gen(secret, writer_ok) ==
  IF writer_ok THEN Ok([secret |-> secret, commitment |-> hash(<<secret>>)])
  ELSE Err("WriteError")

\* the line with the intercept subtracted
evaluate_line_sub(a_1, share_x, a_0) == sub_assign(mul_assign(a_1, share_x), a_0)

\* "evaluate line equation": share_y = a_1; share_y.mul_assign(&share_x);
\* share_y.add_assign(&a_0)
evaluate_line(a_1, share_x, a_0) == add_assign(mul_assign(a_1, share_x), a_0)

\* the assignment of the circuit for one signal: the share of the line
\* through (0, id_key) with slope a_1, and the nullifier of the slope
rln_inputs(t, input, share_x, a_1) ==
  [share_x |-> share_x,
   share_y |-> evaluate_line(a_1, share_x, input.id_key),
   epoch |-> input.epoch, nullifier |-> hash(<<a_1>>),
   root |-> root(t), id_key |-> input.id_key,
   auth_path |-> witness(t, input.index)]

\* the proof followed by its public inputs
proof_output(inputs) ==
  Ok([proof |-> create_random_proof(inputs), inputs |-> public_inputs(inputs)])

\* RLN::generate_proof(input): no inclusion check precedes the prover (the
\* test of ffi.rs has the call succeed on a leaf that is not the secret's)
RLN_generate_proof(t, input_data) ==
  IF input_data = Malformed THEN Err("SerializationError")
  ELSE IF input_data[1].index >= capacity(t) THEN Err("IndexError")
  ELSE proof_output(rln_inputs(t, input_data[1],
                               hash_to_field(input_data[1].signal),
                               hash(<<input_data[1].id_key,
                                      input_data[1].epoch>>)))

\* RLN::verify(proof_data): the proof and its embedded public inputs, then
\* the signal; false when the signal's hash is not the embedded share_x
RLN_verify(proof_data) ==
  IF proof_data = Malformed THEN Err("SerializationError")
  ELSE IF hash_to_field(proof_data[1].signal) # proof_data[1].inputs.share_x
       THEN Ok(FALSE)
  ELSE Ok(verify_proof(proof_data[1].proof, proof_data[1].inputs))

(***************************************************************************)
(* The foreign boundary of src/ffi.rs.                                     *)
(*   ctx         the engine pointer: "null" before construction            *)
(*   tree        the engine's Merkle tree                                  *)
(*   next_index  the engine's next free leaf index                         *)
(*   held        the proof buffer the caller is about to verify: the one   *)
(*               generate_proof last wrote, with what the caller asked it  *)
(*               for; the caller drops it when it turns to another call    *)
(*   last        the last call: the function, what it returned, the        *)
(*               engine's error, *result_ptr, the output buffer and the    *)
(*               input (of verify: the signal that follows the proof)      *)
(*   circuit     the assignment the test of src/circuit/rln.rs builds and  *)
(*               what its run of the constraint system found               *)
(*   pending     whether the caller serializes the calls on the engine,    *)
(*               and the generate_proof that is in progress                *)
(***************************************************************************)
VARIABLES ctx, tree, next_index, held, last, circuit, pending

vars == <<ctx, tree, next_index, held, last, circuit, pending>>

\* held is empty, or holds one proof buffer
NoProof == <<>>

\* no assignment built yet
NoCircuit ==
  [pc |-> "new", inputs |-> <<>>, tampered |-> 0, satisfied |-> FALSE,
   verified |-> FALSE]

\* serialized calls, none in progress
NoCall == [serialized |-> TRUE, call |-> <<>>]

\* impl From<&[u8]> for Buffer: &src[0] panics on an empty slice
Buffer_from(src) == IF src = <<>> THEN "panic" ELSE src

\* a call's record; *result_ptr is 0 before the call (let mut result = 0u32)
Call(fn, ret, r) ==
  [fn |-> fn, ret |-> ret, err |-> r.err, result |-> 0, written |-> FALSE,
   out |-> <<>>, arg |-> <<>>]

\* a match whose value is dropped, the function returning true
match_bool_dropped(r) == "true"

\* match ... { Ok(_) => true, Err(_) => false }
match_bool(r) == IF r.ok THEN "true" ELSE "false"

\* get_root: the value of the match is dropped; the buffer is made of
\* whatever the engine wrote, and the function returns true
get_root_return(r) ==
  IF Buffer_from(r.out) = "panic" THEN "abort" ELSE "true"

\* generate_proof, signal_to_field, key_gen: Err(_) => return false, else
\* the output buffer is written and the function returns true
output_return(r) ==
  IF ~r.ok THEN "false"
  ELSE IF Buffer_from(r.out) = "panic" THEN "abort" ELSE "true"

\* a verify that writes 1 before it returns false
verify_result_on_error(r, result) ==
  IF ~r.ok THEN 1
  ELSE IF r.out[1] THEN 0 ELSE 1

\* a verify that writes 0 whatever the engine answered
verify_result_zero(r, result) == IF ~r.ok THEN result ELSE 0

\* verify: Err(_) => return false; *result_ptr = 0 when verified, else 1
verify_result(r, result) ==
  IF ~r.ok THEN result
  ELSE IF r.out[1] THEN 0 ELSE 1

Init ==
  /\ ctx = "null"
  /\ tree = empty(0)
  /\ next_index = 0
  /\ held = NoProof
  /\ last = Call("none", "true", Ok(0))
  /\ circuit = NoCircuit
  /\ pending = NoCall

new_circuit_from_params ==
  /\ ctx = "null"
  /\ \E merkle_depth \in Depths,
        parameters \in {Buffer("parameters"), Malformed} :
       \E r \in {RLN_new_with_raw_params(merkle_depth, parameters)} :
          /\ IF r.ok
             THEN /\ ctx' = "rln"
                  /\ tree' = r.out[1].tree
                  /\ next_index' = r.out[1].next_index
             ELSE UNCHANGED <<ctx, tree, next_index>>
          /\ last' = Call("new_circuit_from_params", match_bool(r), r)
  /\ UNCHANGED held
  /\ UNCHANGED <<circuit, pending>>

get_root ==
  /\ ctx = "rln"
  /\ \E writer_ok \in BOOLEAN :
       \E r \in {RLN_get_root(tree, writer_ok)} :
          last' = [Call("get_root", get_root_return(r), r)
                     EXCEPT !.out = r.out]
  /\ held' = NoProof
  /\ UNCHANGED <<ctx, tree, next_index>>
  /\ UNCHANGED <<circuit, pending>>

update_next_member ==
  /\ ctx = "rln"
  /\ \E input \in {Buffer(hash(<<s>>)) : s \in Secrets} \cup {Malformed} :
       \E r \in {RLN_update_next_member(tree, next_index, input)} :
          /\ IF r.ok
             THEN /\ tree' = r.out[1].tree
                  /\ next_index' = r.out[1].next_index
             ELSE UNCHANGED <<tree, next_index>>
          /\ held' = NoProof
          /\ last' = [Call("update_next_member", match_bool(r), r)
                        EXCEPT !.arg = input]
  /\ UNCHANGED ctx
  /\ UNCHANGED <<circuit, pending>>

delete_member ==
  /\ ctx = "rln"
  /\ \E index \in 0 .. (capacity(tree) - 1) :
       \E r \in {RLN_delete_member(tree, next_index, index)} :
          /\ IF r.ok
             THEN /\ tree' = r.out[1].tree
                  /\ next_index' = r.out[1].next_index
             ELSE UNCHANGED <<tree, next_index>>
          /\ held' = NoProof
          /\ last' = [Call("delete_member", match_bool(r), r)
                        EXCEPT !.arg = <<index>>]
  /\ UNCHANGED ctx
  /\ UNCHANGED <<circuit, pending>>

generate_proof ==
  /\ ctx = "rln"
  /\ \E input_data \in
         {Buffer(i) : i \in [id_key : Secrets, index : 0 .. capacity(tree),
                             epoch : Epochs, signal : Signals]}
         \cup {Malformed} :
       \E r \in {RLN_generate_proof(tree, input_data)} :
          /\ held' = IF output_return(r) = "true"
                     THEN <<[proof |-> r.out[1].proof,
                             inputs |-> r.out[1].inputs,
                             id_key |-> input_data[1].id_key,
                             index |-> input_data[1].index,
                             signal |-> input_data[1].signal]>>
                     ELSE NoProof
          /\ last' = [Call("generate_proof", output_return(r), r)
                        EXCEPT !.arg = input_data]
  /\ UNCHANGED <<ctx, tree, next_index>>
  /\ UNCHANGED <<circuit, pending>>

verify ==
  /\ ctx = "rln"
  /\ held # NoProof
  /\ \E proof_data \in
         {Buffer([proof |-> held[1].proof, inputs |-> held[1].inputs,
                  signal |-> m]) : m \in Signals} \cup {Malformed} :
       \E r \in {RLN_verify(proof_data)} :
          last' = [Call("verify", match_bool(r), r)
                     EXCEPT !.result = verify_result(r, 0),
                            !.written = r.ok,
                            !.arg = IF proof_data = Malformed THEN Malformed
                                    ELSE Buffer(proof_data[1].signal)]
  /\ UNCHANGED <<ctx, tree, next_index, held>>
  /\ UNCHANGED <<circuit, pending>>

signal_to_field ==
  /\ ctx = "rln"
  /\ \E input \in {Buffer(m) : m \in Signals} \cup {Malformed} :
       \E r \in {RLN_signal_to_field(input)} :
          last' = [Call("signal_to_field", output_return(r), r)
                     EXCEPT !.out = r.out, !.arg = input]
  /\ held' = NoProof
  /\ UNCHANGED <<ctx, tree, next_index>>
  /\ UNCHANGED <<circuit, pending>>

\* a key_gen that also registers the commitment it made
key_gen_registering ==
  /\ ctx = "rln"
  /\ next_index < capacity(tree)
  /\ \E secret \in Secrets :
       \E r \in {RLN_key_gen(secret, TRUE)} :
          /\ tree' = update(tree, next_index, r.out[1].commitment)
          /\ last' = [Call("key_gen", output_return(r), r) EXCEPT !.out = r.out]
  /\ next_index' = next_index + 1
  /\ held' = NoProof
  /\ UNCHANGED ctx
  /\ UNCHANGED <<circuit, pending>>

key_gen ==
  /\ ctx = "rln"
  /\ \E secret \in Secrets, writer_ok \in BOOLEAN :
       \E r \in {RLN_key_gen(secret, writer_ok)} :
          last' = [Call("key_gen", output_return(r), r) EXCEPT !.out = r.out]
  /\ held' = NoProof
  /\ UNCHANGED <<ctx, tree, next_index>>
  /\ UNCHANGED <<circuit, pending>>

Next ==
  \/ new_circuit_from_params
  \/ get_root
  \/ update_next_member
  \/ delete_member
  \/ generate_proof
  \/ verify
  \/ signal_to_field
  \/ key_gen

Spec == Init /\ [][Next]_vars

(***************************************************************************)
(* The test of src/circuit/rln.rs: RLNTest::inputs builds an assignment    *)
(* natively from a tree with one member, RLNTest::run synthesizes the      *)
(* circuit on a test constraint system, proves and verifies.  RLNInputs    *)
(* has public fields: between the two, any of them can be given another    *)
(* value.                                                                  *)
(***************************************************************************)
\* the number of fields changed after RLNTest::inputs
MaxTamper == 1

\* the assignments that differ from a in one field
tamperings(a) ==
  ( {[a EXCEPT !.root = add_assign(a.root, 1)],
     [a EXCEPT !.nullifier = add_assign(a.nullifier, 1)],
     [a EXCEPT !.share_y = add_assign(a.share_y, 1)],
     [a EXCEPT !.share_y = a.id_key]}
    \cup {[a EXCEPT !.epoch = e] : e \in 1 .. (MaxEpoch + 1)}
    \cup {[a EXCEPT !.share_x = hash_to_field(m)] : m \in Signals}
    \cup {[a EXCEPT !.id_key = s] : s \in Secrets}
    \cup {[a EXCEPT !.auth_path[k][2] = ~a.auth_path[k][2]] :
            k \in 1 .. Len(a.auth_path)}
    \cup {[a EXCEPT !.auth_path[k][1] = add_assign(a.auth_path[k][1], 1)] :
            k \in 1 .. Len(a.auth_path)} ) \ {a}

\* RLNTest::inputs: an identity inserted at id_index of an empty tree, its
\* witness, the share of a signal hash, the nullifier
RLNTest_inputs ==
  /\ circuit.pc = "new"
  /\ \E merkle_depth \in Depths, id_key \in Secrets, epoch \in Epochs,
        signal \in Signals :
       \E id_index \in 0 .. (pow2(merkle_depth) - 1) :
          \E membership_tree \in {update(empty(merkle_depth), id_index,
                                         hash(<<id_key>>))} :
             circuit' =
               [circuit EXCEPT
                  !.pc = "inputs",
                  !.inputs =
                     <<rln_inputs(membership_tree,
                                  [id_key |-> id_key, index |-> id_index,
                                   epoch |-> epoch],
                                  hash_to_field(signal),
                                  hash(<<id_key, epoch>>))>>]
  /\ UNCHANGED <<ctx, tree, next_index, held, last, pending>>

\* one field of the assignment given another value
tamper ==
  /\ circuit.pc = "inputs"
  /\ circuit.tampered < MaxTamper
  /\ \E a \in tamperings(circuit.inputs[1]) :
       circuit' = [circuit EXCEPT !.inputs = <<a>>,
                                  !.tampered = circuit.tampered + 1]
  /\ UNCHANGED <<ctx, tree, next_index, held, last, pending>>

\* RLNTest::run: cs.is_satisfied() after synthesize, then the proof created
\* and verified against the public inputs
RLNTest_run ==
  /\ circuit.pc = "inputs"
  /\ \E proof \in {create_random_proof(circuit.inputs[1])} :
       circuit' =
         [circuit EXCEPT
            !.pc = "done",
            !.satisfied = proof.satisfied,
            !.verified = verify_proof(proof,
                                      public_inputs(circuit.inputs[1]))]
  /\ UNCHANGED <<ctx, tree, next_index, held, last, pending>>

NextCircuit ==
  \/ RLNTest_inputs
  \/ tamper
  \/ RLNTest_run

SpecCircuit == Init /\ [][NextCircuit]_vars

(***************************************************************************)
(* Two threads on one engine.  The boundary takes no lock: one thread is   *)
(* in generate_proof, which fetches the witness of the index and then      *)
(* reads the root and proves, while the other calls update_next_member and *)
(* delete_member through the same pointer.  A caller that serializes the   *)
(* calls lets no mutation start while a generate_proof is in progress.     *)
(***************************************************************************)
InitRace ==
  /\ ctx = "null"
  /\ tree = empty(0)
  /\ next_index = 0
  /\ held = NoProof
  /\ last = Call("none", "true", Ok(0))
  /\ circuit = NoCircuit
  /\ pending \in {[NoCall EXCEPT !.serialized = b] : b \in BOOLEAN}

\* a mutation may start
unlocked == ~pending.serialized \/ pending.call = <<>>

\* the other thread's update_next_member, its return value not recorded
mutate_update ==
  /\ ctx = "rln" /\ unlocked
  /\ \E input \in {Buffer(hash(<<s>>)) : s \in Secrets} :
       \E r \in {RLN_update_next_member(tree, next_index, input)} :
          /\ r.ok
          /\ tree' = r.out[1].tree
          /\ next_index' = r.out[1].next_index
  /\ held' = NoProof
  /\ UNCHANGED <<ctx, last, circuit, pending>>

\* the other thread's delete_member
mutate_delete ==
  /\ ctx = "rln" /\ unlocked
  /\ \E index \in 0 .. (capacity(tree) - 1) :
       \E r \in {RLN_delete_member(tree, next_index, index)} :
          /\ r.ok
          /\ tree' = r.out[1].tree
          /\ next_index' = r.out[1].next_index
  /\ held' = NoProof
  /\ UNCHANGED <<ctx, last, circuit, pending>>

\* generate_proof, first part: the input read, the witness of its index
\* fetched from the tree
generate_proof_witness ==
  /\ ctx = "rln" /\ pending.call = <<>>
  /\ \E input \in [id_key : Secrets, index : 0 .. (capacity(tree) - 1),
                    epoch : Epochs, signal : Signals] :
       pending' = [pending EXCEPT !.call =
                     <<[input |-> input,
                        leaf |-> leaf(tree, input.index),
                        auth_path |-> witness(tree, input.index)]>>]
  /\ held' = NoProof
  /\ UNCHANGED <<ctx, tree, next_index, last, circuit>>

\* the assignment of a call in progress: the witness it fetched, the root
\* of the tree as it is now
pending_inputs(call, t) ==
  [rln_inputs(t, call.input, hash_to_field(call.input.signal),
              hash(<<call.input.id_key, call.input.epoch>>))
     EXCEPT !.auth_path = call.auth_path]

\* generate_proof, second part: the root read, the proof made and written
generate_proof_prove ==
  /\ ctx = "rln" /\ pending.call # <<>>
  /\ \E r \in {proof_output(pending_inputs(pending.call[1], tree))} :
       /\ held' = <<[proof |-> r.out[1].proof,
                     inputs |-> r.out[1].inputs,
                     id_key |-> pending.call[1].input.id_key,
                     index |-> pending.call[1].input.index,
                     signal |-> pending.call[1].input.signal,
                     leaf |-> pending.call[1].leaf,
                     auth_path |-> pending.call[1].auth_path]>>
       /\ last' = Call("generate_proof", output_return(r), r)
  /\ pending' = [pending EXCEPT !.call = <<>>]
  /\ UNCHANGED <<ctx, tree, next_index, circuit>>

NextRace ==
  \/ new_circuit_from_params
  \/ mutate_update
  \/ mutate_delete
  \/ generate_proof_witness
  \/ generate_proof_prove

SpecRace == InitRace /\ [][NextRace]_vars

(***************************************************************************)
(* Properties.                                                             *)
(***************************************************************************)
\* the leaf at index is the commitment of id_key
member(t, id_key, index) ==
  index < capacity(t) /\ leaf(t, index) = hash(<<id_key>>)

\* the leaf at index is the commitment of another secret
other_member(t, id_key, index) ==
  /\ index < capacity(t)
  /\ \E s \in Secrets \ {id_key} : leaf(t, index) = hash(<<s>>)

\* the last call was generate_proof, on a well-formed input
generated == last.fn = "generate_proof" /\ last.arg # Malformed

\* the last call was verify, of the held proof followed by some signal
verified == last.fn = "verify" /\ last.arg # Malformed

\* ... followed by the signal the proof was generated for
verified_same == verified /\ last.arg = Buffer(held[1].signal)

\* member 0 has been deleted
deleted_0 == next_index > 0 /\ leaf(tree, 0) = 0

\* C1: round trip.  When the leaf at the index is the commitment of the
\* secret, generate_proof succeeds and leaves a proof, and verify of that
\* proof followed by the same signal returns true with *result_ptr = 0.
RoundTrip ==
  /\ generated /\ member(tree, last.arg[1].id_key, last.arg[1].index)
       => last.ret = "true" /\ held # NoProof
  /\ verified_same /\ member(tree, held[1].id_key, held[1].index)
       => last.ret = "true" /\ last.written /\ last.result = 0

\* a member's proof verified after member 0 was deleted
RoundTripAfterDelete ==
  /\ verified_same /\ member(tree, held[1].id_key, held[1].index)
  /\ deleted_0 /\ held[1].index # 0
  /\ last.ret = "true" /\ last.result = 0

\* C2: tamper sensitivity.  verify of a proof followed by a signal other
\* than the one it was generated for returns true (no error) with
\* *result_ptr = 1.
TamperSensitivity ==
  verified /\ last.arg # Buffer(held[1].signal)
    => last.ret = "true" /\ last.written /\ last.result = 1

\* a member's proof rejected for another signal
TamperedMemberProof ==
  /\ verified /\ last.arg # Buffer(held[1].signal)
  /\ member(tree, held[1].id_key, held[1].index)
  /\ held[1].proof.satisfied
  /\ last.result = 1

\* C3: membership necessity.  generate_proof fails with WitnessError and
\* leaves no proof when the leaf at the index is not the commitment of the
\* secret.
MembershipNecessity ==
  /\ generated /\ last.arg[1].index < capacity(tree)
  /\ ~member(tree, last.arg[1].id_key, last.arg[1].index)
  => last.ret = "false" /\ last.err = "WitnessError" /\ held = NoProof

\* C4: with a member's secret and the index of another member's leaf,
\* generate_proof returns true and leaves a proof, and verify of it with
\* the same signal returns true with *result_ptr = 1.
OtherMemberIndex ==
  /\ generated /\ other_member(tree, last.arg[1].id_key, last.arg[1].index)
       => last.ret = "true" /\ held # NoProof
  /\ verified_same /\ other_member(tree, held[1].id_key, held[1].index)
       => last.ret = "true" /\ last.written /\ last.result = 1

\* the same after member 0 was deleted, by a secret that is a member
OtherMemberIndexAfterDelete ==
  /\ verified_same /\ other_member(tree, held[1].id_key, held[1].index)
  /\ \E i \in 1 .. (next_index - 1) : member(tree, held[1].id_key, i)
  /\ deleted_0
  /\ last.ret = "true" /\ last.result = 1

\* the value at 0 of the line through (x1, y1) and (x2, y2)
interpolate(x1, y1, x2, y2) ==
  mul_assign(sub_assign(mul_assign(y1, x2), mul_assign(y2, x1)),
             inverse(sub_assign(x2, x1)))

\* the held proof, and the proof a generate_proof step replaces it with,
\* are of the same secret and epoch and of two different signals
double_signal ==
  /\ held # NoProof /\ held' # NoProof /\ last'.fn = "generate_proof"
  /\ held'[1].id_key = held[1].id_key
  /\ held'[1].inputs.epoch = held[1].inputs.epoch
  /\ held'[1].signal # held[1].signal

\* (share_x, share_y) of the public inputs is on the line of slope
\* hash(s, epoch) and intercept s
on_line(inputs, s) ==
  inputs.share_y =
    add_assign(mul_assign(hash(<<s, inputs.epoch>>), inputs.share_x), s)

\* C5: double-signal recovery.  Two proofs generated for one secret and
\* epoch and two different signals carry the same nullifier
\* hash(hash(s, e)) and two points of the line y = hash(s, e) * x + s, and
\* the line through the two points has the value s at 0.
DoubleSignalRecovery ==
  [][double_signal =>
       /\ held'[1].inputs.nullifier = held[1].inputs.nullifier
       /\ held[1].inputs.nullifier =
            hash(<<hash(<<held[1].id_key, held[1].inputs.epoch>>)>>)
       /\ on_line(held[1].inputs, held[1].id_key)
       /\ on_line(held'[1].inputs, held[1].id_key)
       /\ interpolate(held[1].inputs.share_x, held[1].inputs.share_y,
                      held'[1].inputs.share_x, held'[1].inputs.share_y)
            = held[1].id_key]_vars

\* a member's proof, and a second signal whose point differs from the
\* proof's and gives the secret with it
SecondSignalRecovers ==
  /\ generated /\ held # NoProof
  /\ member(tree, held[1].id_key, held[1].index)
  /\ \E m \in Signals \ {held[1].signal} :
       \E r \in {RLN_generate_proof(tree, Buffer([last.arg[1]
                                               EXCEPT !.signal = m]))} :
          /\ r.out[1].inputs.share_x # held[1].inputs.share_x
          /\ r.out[1].inputs.share_y # held[1].inputs.share_y
          /\ interpolate(held[1].inputs.share_x, held[1].inputs.share_y,
                         r.out[1].inputs.share_x, r.out[1].inputs.share_y)
               = held[1].id_key

\* what the boundary's verify writes to *result_ptr for the held proof
\* followed by its own signal
verify_held ==
  verify_result(RLN_verify(Buffer([proof |-> held[1].proof,
                                   inputs |-> held[1].inputs,
                                   signal |-> held[1].signal])), 0)

\* C6: deletion effect.  When delete_member changes the root, verify of a
\* member's proof generated before it reports the proof as not verified,
\* while the proof's public inputs are a true statement about the old root.
DeletionEffect ==
  [][/\ held # NoProof /\ member(tree, held[1].id_key, held[1].index)
     /\ last'.fn = "delete_member" /\ last'.ret = "true"
     /\ root(tree') # root(tree)
     => /\ verify_held = 1
        /\ held[1].inputs.root = root(tree) /\ held[1].proof.satisfied]_vars

\* C7: capacity and index allocation.  A well-formed update_next_member
\* succeeds while fewer than 2^depth have, inserting at the next index and
\* changing no other leaf; from then on it fails with CapacityError and
\* leaves tree and counter unchanged; the counter never decreases, so a
\* deleted index is not assigned again.
IndexAllocation ==
  [][/\ next_index' >= next_index
     /\ last'.fn = "delete_member" => next_index' = next_index
     /\ last'.fn = "update_next_member" /\ last'.arg # Malformed =>
          IF next_index < capacity(tree)
          THEN /\ last'.ret = "true"
               /\ next_index' = next_index + 1
               /\ leaf(tree', next_index) = last'.arg[1]
               /\ \A i \in (0 .. (capacity(tree) - 1)) \ {next_index} :
                     leaf(tree', i) = leaf(tree, i)
          ELSE /\ last'.ret = "false" /\ last'.err = "CapacityError"
               /\ tree' = tree /\ next_index' = next_index]_vars

\* a full tree with a deleted leaf refuses one more member
FullWithDeleted ==
  /\ last.fn = "update_next_member" /\ last.err = "CapacityError"
  /\ last.ret = "false"
  /\ next_index = capacity(tree) /\ tree.depth = 2
  /\ \E i \in 0 .. (next_index - 1) : leaf(tree, i) = 0

\* C8: every function of the boundary returns false, and neither true nor
\* an abort, when the engine's operation returned an error.
ErrorToFalse == last.err # "none" => last.ret = "false"

\* s is the intercept of some line through (x, y): some slope a1 has
\* y = a1 * x + s (a1 = (y - s) / x when x is not 0; s = y when it is)
candidate(x, y, s) ==
  IF x = 0 THEN y = s
  ELSE add_assign(mul_assign(mul_assign(sub_assign(y, s), inverse(x)), x), s)
         = y

\* C9: single-signal secrecy.  The point of every proof that satisfies the
\* circuit is on a line of at least two secrets.
SingleSignalSecrecy ==
  held # NoProof /\ held[1].proof.satisfied =>
    \E s1 \in Secrets, s2 \in Secrets :
       /\ s1 # s2
       /\ candidate(held[1].inputs.share_x, held[1].inputs.share_y, s1)
       /\ candidate(held[1].inputs.share_x, held[1].inputs.share_y, s2)

\* the functions that take the engine by shared reference
ReadOnly ==
  {"generate_proof", "verify", "get_root", "signal_to_field", "key_gen"}

\* C10: frame.  generate_proof, verify, get_root, signal_to_field and
\* key_gen leave the engine, its tree and its counter as they were, whatever
\* they return; a step of a constructed engine that changes the tree or the
\* counter is one of update_next_member and delete_member.
Frame ==
  [][/\ last'.fn \in ReadOnly =>
          ctx' = ctx /\ tree' = tree /\ next_index' = next_index
     /\ ctx = "rln" /\ (tree' # tree \/ next_index' # next_index) =>
          last'.fn \in {"update_next_member", "delete_member"}]_vars

\* a failed call of a read-only function on a tree with a member
ReadOnlyFailed ==
  /\ last.fn \in ReadOnly /\ last.ret # "true"
  /\ next_index > 0 /\ root(tree) # root(empty(tree.depth))

\* the pair key_gen wrote
keypair == last.out[1]

\* key_gen returned true
generated_key == last.fn = "key_gen" /\ last.ret = "true"

\* in tree t, every proof of id_key at index satisfies the circuit and is
\* reported verified by the boundary
proving_key(t, id_key, index) ==
  \A epoch \in Epochs, signal \in Signals :
     \E r \in {RLN_generate_proof(t, Buffer([id_key |-> id_key,
                                             index |-> index,
                                             epoch |-> epoch,
                                             signal |-> signal]))} :
        /\ output_return(r) = "true"
        /\ r.out[1].proof.satisfied
        /\ verify_result(RLN_verify(Buffer([proof |-> r.out[1].proof,
                                            inputs |-> r.out[1].inputs,
                                            signal |-> signal])), 1) = 0

\* C11: key_gen writes a secret followed by its commitment hash(secret), and
\* once update_next_member has registered that commitment the secret proves
\* membership at the index it was inserted at.
KeyGenCommitment ==
  [][/\ generated_key' => keypair'.commitment = hash(<<keypair'.secret>>)
     /\ /\ generated_key
        /\ last'.fn = "update_next_member" /\ last'.ret = "true"
        /\ last'.arg = Buffer(keypair.commitment)
        => proving_key(tree', keypair.secret, next_index)]_vars

\* a key pair made on a tree with a member and a free leaf, whose
\* registration makes the secret prove at the next index
KeyRegistrable ==
  /\ generated_key
  /\ next_index > 0 /\ next_index < capacity(tree)
  /\ \E r \in {RLN_update_next_member(tree, next_index,
                                       Buffer(keypair.commitment))} :
        r.ok /\ proving_key(r.out[1].tree, keypair.secret, next_index)

\* what the engine answers to the input of the last verify
engine_verify ==
  RLN_verify(IF last.arg = Malformed THEN Malformed
             ELSE Buffer([proof |-> held[1].proof,
                          inputs |-> held[1].inputs,
                          signal |-> last.arg[1]]))

\* C14: verify keeps three outcomes apart.  On an engine error it returns
\* false and *result_ptr keeps its value; when the proof verifies it
\* returns true and writes 0; when it does not it returns true and writes 1.
VerifyOutcomes ==
  last.fn = "verify" =>
    \E r \in {engine_verify} :
       /\ ~r.ok =>
            last.ret = "false" /\ ~last.written /\ last.result = 0
       /\ r.ok /\ r.out[1] =>
            last.ret = "true" /\ last.written /\ last.result = 0
       /\ r.ok /\ ~r.out[1] =>
            last.ret = "true" /\ last.written /\ last.result = 1

\* a member's proof cut short: an error, not a result
MalformedIsError ==
  /\ last.fn = "verify" /\ last.arg = Malformed
  /\ held[1].proof.satisfied
  /\ last.ret = "false" /\ ~last.written

\* acc folded up the path: hash(acc, sibling) where the position bit is
\* true, hash(sibling, acc) where it is false
RECURSIVE fold(_, _)
fold(acc, auth_path) ==
  IF auth_path = <<>> THEN acc
  ELSE fold(IF Head(auth_path)[2] THEN hash(<<acc, Head(auth_path)[1]>>)
            ELSE hash(<<Head(auth_path)[1], acc>>),
            Tail(auth_path))

\* (1) the fold of hash(id_key) up the auth path ends at root
is_member(a) == fold(hash(<<a.id_key>>), a.auth_path) = a.root

\* (2) share_y = hash(id_key, epoch) * share_x + id_key
is_share(a) ==
  a.share_y =
    add_assign(mul_assign(hash(<<a.id_key, a.epoch>>), a.share_x), a.id_key)

\* (3) nullifier = hash(hash(id_key, epoch))
is_nullifier(a) == a.nullifier = hash(<<hash(<<a.id_key, a.epoch>>)>>)

\* C12: the constraint system is satisfied by an assignment exactly when
\* (1), (2) and (3) hold of it; the assignment computed natively from a
\* tree witness satisfies it, and its proof verifies.
CircuitIff ==
  circuit.pc = "done" =>
    /\ circuit.satisfied <=> /\ is_member(circuit.inputs[1])
                             /\ is_share(circuit.inputs[1])
                             /\ is_nullifier(circuit.inputs[1])
    /\ circuit.verified <=> circuit.satisfied
    /\ circuit.tampered = 0 => circuit.satisfied

\* an assignment wrong in its nullifier only, found unsatisfied
NullifierOnly ==
  /\ circuit.pc = "done" /\ circuit.tampered = 1
  /\ is_member(circuit.inputs[1]) /\ is_share(circuit.inputs[1])
  /\ ~is_nullifier(circuit.inputs[1])
  /\ ~circuit.satisfied

\* the witness of the emitted proof leads from the leaf it was fetched for
\* to the root the proof states
consistent == fold(held[1].leaf, held[1].auth_path) = held[1].inputs.root

\* C13: when the caller serializes the calls, every proof generate_proof
\* emits has a witness consistent with its root, and a member's proof
\* satisfies the circuit and is reported verified.
SerializedConsistent ==
  pending.serialized /\ held # NoProof =>
    /\ consistent
    /\ held[1].leaf = hash(<<held[1].id_key>>) =>
         held[1].proof.satisfied /\ verify_held = 0

\* without serialization: a mutation between the witness fetch and the read
\* of the root, and a member's proof whose witness and root disagree,
\* reported not verified
RacedProof ==
  /\ ~pending.serialized /\ held # NoProof
  /\ held[1].leaf = hash(<<held[1].id_key>>)
  /\ member(tree, held[1].id_key, held[1].index)
  /\ ~consistent
  /\ ~held[1].proof.satisfied /\ verify_held = 1
====
